---- MODULE Spec2Model ----
(***************************************************************************)
(* Model of apps/opengl_demo/main.cpp: one PNG image is run through an     *)
(* ahead-of-time compiled filter by three residency strategies (host,      *)
(* host staged to the device, device texture to device texture), each      *)
(* result is drawn, and the device state is torn down.                     *)
(*                                                                         *)
(* main() is one sequential thread; pc is its position.  Every statement   *)
(* of main.cpp that calls out of the file or touches a descriptor is one   *)
(* action.  The C arrays extent[], stride[] and min[] are 0-based, the     *)
(* tuples that model them are 1-based: stride[0] is stride[1] here.        *)
(***************************************************************************)
EXTENDS Integers, Sequences, FiniteSets, TLC

VARIABLES
    pc,          \* position of main(), or of the strategy function it called
    argc,        \* main's argument count
    width,       \* image.width  (0 before the image is loaded)
    height,      \* image.height (0 before the image is loaded)
    heap,        \* host allocations: address -> [state, bytes]
    textures,    \* device textures: id -> [state, pixels]
    input_buf,   \* the running strategy function's local input_buf
    output_buf,  \* the running strategy function's local output_buf
    window,      \* "none", "open" or "terminated": the GLFW window/context
    drawn,       \* what each quadrant of the window was last given to show
    usage,       \* TRUE once the usage message went to std::cerr
    exit_code,   \* -1 while running, else the process exit code
    log          \* history: every call main.cpp made, in order

vars == <<pc, argc, width, height, heap, textures, input_buf, output_buf,
          window, drawn, usage, exit_code, log>>

----------------------------------------------------------------------------
(* Bounds of the model. *)

MaxArgc == 3
MaxWidth == 2
MaxHeight == 2

(* Colours the pixels of the loaded image are taken from (r, g, b, a).     *)
Palette == << <<255, 0, 0, 255>>, <<255, 255, 255, 0>>, <<0, 128, 255, 255>> >>

(* Status codes an external routine can return: 0 is success.              *)
Statuses == {0, 1}

----------------------------------------------------------------------------
(* Addresses and handles. *)

NULL == 0
image_data == 1
cpu_result_data == 2
opengl_result_data == 3
Addresses == {image_data, cpu_result_data, opengl_result_data}

image_texture_id == 1
result_texture_id == 2
staged_input_texture == 3
staged_output_texture == 4
TextureIds == {image_texture_id, result_texture_id,
               staged_input_texture, staged_output_texture}

(* Contents nobody has written: a texture created from nullptr.            *)
Undefined == << -1 >>
(* A quadrant nothing was drawn into.                                      *)
Nothing == << -2 >>

Quadrants == {"UL", "UR", "LL", "LR"}

----------------------------------------------------------------------------
(* buffer_t and its builder. *)

(* buffer_t buf = {0}                                                      *)
ZeroBuffer ==
    [dev |-> 0, host |-> NULL,
     extent |-> <<0, 0, 0, 0>>, stride |-> <<0, 0, 0, 0>>,
     min |-> <<0, 0, 0, 0>>, elem_size |-> 0,
     host_dirty |-> FALSE, dev_dirty |-> FALSE]

create_buffer_swapped(w, h) ==
    LET channels == 4
        elem_size == 1
    IN  [ZeroBuffer EXCEPT
            !.stride = <<channels, channels * h, 1, 0>>,
            !.elem_size = elem_size,
            !.extent = <<w, h, channels, 0>>]

create_buffer(w, h) ==
    LET channels == 4
        elem_size == 1
    IN  [ZeroBuffer EXCEPT
            !.stride = <<channels, channels * w, 1, 0>>,
            !.elem_size = elem_size,
            !.extent = <<w, h, channels, 0>>]

----------------------------------------------------------------------------
(* The external collaborators, at their interface. *)

(* PNGHelpers::load: 4 bytes per pixel, row-major interleaved.  Pixel k    *)
(* takes the Palette colour k places after the p-th.                       *)
LoadedPixels(w, h, p) ==
    [i \in 1..(4 * w * h) |->
        Palette[(((p - 1) + ((i - 1) \div 4)) % Len(Palette)) + 1][((i - 1) % 4) + 1]]

ZeroBytes(n) == [i \in 1..n |-> 0]

(* The compiled filter, per byte of channel c (0-based): the colour        *)
(* channels are inverted, alpha is kept.                                   *)
FilterByte(c, v) == IF c = 3 THEN v ELSE 255 - v

(* Byte offset of element (x, y, c) in the memory a descriptor describes.  *)
Offset(buf, x, y, c) == x * buf.stride[1] + y * buf.stride[2] + c * buf.stride[3]

Coordinates(buf) ==
    (0..(buf.extent[1] - 1)) \X (0..(buf.extent[2] - 1)) \X (0..(buf.extent[3] - 1))

ReadAt(mem, off) == IF (off + 1) \in DOMAIN mem THEN mem[off + 1] ELSE 0

(* mem with every element of buf's extent replaced by values[<<x, y, c>>]. *)
Store(mem, buf, values) ==
    [i \in DOMAIN mem |->
        IF \E xyc \in Coordinates(buf) : Offset(buf, xyc[1], xyc[2], xyc[3]) + 1 = i
        THEN values[CHOOSE q \in Coordinates(buf) :
                        Offset(buf, q[1], q[2], q[3]) + 1 = i]
        ELSE mem[i]]

(* A texel-packed texture: RGBA, row-major.                                *)
TexelOffset(buf, x, y, c) == (y * buf.extent[1] + x) * 4 + c

HasSource(buf) == buf.host # NULL \/ buf.dev # 0

(* sample_filter_cpu on success: the output's host memory receives the     *)
(* filter of the input's host memory.                                      *)
CpuFilterResult(inb, outb, src, dst) ==
    Store(dst, outb,
          [q \in Coordinates(outb) |->
              FilterByte(q[3], ReadAt(src, Offset(inb, q[1], q[2], q[3])))])

(* What the device holds for a descriptor when the device filter starts:   *)
(* the texture it is bound to, or a runtime-allocated one that is filled   *)
(* from host memory when host_dirty is set.                                *)
DeviceHandle(buf, fresh) == IF buf.dev # 0 THEN buf.dev ELSE fresh

Upload(buf, src) ==
    [i \in 1..(4 * buf.extent[1] * buf.extent[2]) |->
        LET t == i - 1
            c == t % 4
            x == (t \div 4) % buf.extent[1]
            y == (t \div 4) \div buf.extent[1]
        IN  ReadAt(src, Offset(buf, x, y, c))]

DeviceFilterResult(pixels) ==
    IF pixels = Undefined THEN Undefined
    ELSE [i \in DOMAIN pixels |-> FilterByte((i - 1) % 4, pixels[i])]

(* halide_copy_to_host on success: device pixels written through the       *)
(* descriptor's strides into its host memory.                              *)
Download(buf, pixels, dst) ==
    IF pixels = Undefined THEN Undefined
    ELSE Store(dst, buf,
               [q \in Coordinates(buf) |->
                   ReadAt(pixels, TexelOffset(buf, q[1], q[2], q[3]))])

(* sample_filter_opengl on success, as [inb, outb, textures].  A           *)
(* descriptor without device handle gets a runtime-allocated texture; a    *)
(* host_dirty input is uploaded first; the result is left on the device    *)
(* and the output is marked dev_dirty.  A descriptor with neither host     *)
(* pointer nor device handle asks for bounds only: nothing is computed.    *)
OpenGLFilterResult(inb, outb, tex, mem) ==
    IF ~HasSource(inb) \/ ~HasSource(outb)
    THEN [inb |-> inb, outb |-> outb, textures |-> tex]
    ELSE LET ih == DeviceHandle(inb, staged_input_texture)
             oh == DeviceHandle(outb, staged_output_texture)
             held == IF inb.dev # 0 THEN tex[ih].pixels ELSE Undefined
             source == IF inb.host_dirty /\ inb.host # NULL
                       THEN Upload(inb, mem[inb.host].bytes)
                       ELSE held
             tex1 == [tex EXCEPT ![ih] = [state |-> "live", pixels |-> source]]
             tex2 == [tex1 EXCEPT ![oh] = [state |-> "live",
                                           pixels |-> DeviceFilterResult(source)]]
         IN  [inb |-> [inb EXCEPT !.dev = ih, !.host_dirty = FALSE],
              outb |-> [outb EXCEPT !.dev = oh, !.dev_dirty = TRUE],
              textures |-> tex2]

(* halide_copy_to_host on success, as the new bytes of the host memory.    *)
CopyToHostResult(buf, tex, mem) ==
    IF buf.dev_dirty /\ buf.dev # 0 /\ buf.host # NULL
    THEN Download(buf, tex[buf.dev].pixels, mem[buf.host].bytes)
    ELSE mem[buf.host].bytes

(* halide_opengl_wrap_texture / halide_opengl_detach_texture: a failed     *)
(* call leaves the descriptor as it was.                                   *)
WrapResult(buf, texture_id, status) ==
    IF status = 0 THEN [buf EXCEPT !.dev = texture_id] ELSE buf

DetachResult(buf, status) ==
    IF status = 0 THEN [buf EXCEPT !.dev = 0] ELSE buf

(* halide_opengl_context_lost: every texture the runtime allocated itself  *)
(* is forgotten.                                                           *)
ContextLostResult(tex) ==
    [t \in TextureIds |->
        IF t \in {staged_input_texture, staged_output_texture} /\ tex[t].state = "live"
        THEN [state |-> "lost", pixels |-> Undefined]
        ELSE tex[t]]

(* What a read of host memory yields: freed memory has no defined content. *)
HostBytes(addr) == IF heap[addr].state = "live" THEN heap[addr].bytes ELSE Undefined

TextureBytes(id) == IF textures[id].state = "live" THEN textures[id].pixels ELSE Undefined

----------------------------------------------------------------------------
(* The history of calls. *)

Event(op, fn, arg, res, status) ==
    [op |-> op, fn |-> fn, arg |-> arg, res |-> res, status |-> status,
     inb |-> input_buf, outb |-> output_buf]

Record(op, fn, arg, res, status) == log' = Append(log, Event(op, fn, arg, res, status))

----------------------------------------------------------------------------
(* Initial state: the process has been started with argc arguments. *)

Init ==
    /\ pc = "main"
    /\ argc \in 1..MaxArgc
    /\ width = 0
    /\ height = 0
    /\ heap = [a \in Addresses |-> [state |-> "unallocated", bytes |-> <<>>]]
    /\ textures = [t \in TextureIds |-> [state |-> "none", pixels |-> Undefined]]
    /\ input_buf = ZeroBuffer
    /\ output_buf = ZeroBuffer
    /\ window = "none"
    /\ drawn = [q \in Quadrants |-> Nothing]
    /\ usage = FALSE
    /\ exit_code = -1
    /\ log = <<>>

----------------------------------------------------------------------------
(* main, up to the first strategy. *)

ArgcMismatchBelow == argc < 2

ArgcMismatch == argc # 2

UsageExit ==
    /\ pc = "main"
    /\ ArgcMismatch
    /\ usage' = TRUE
    /\ exit_code' = 1
    /\ pc' = "exited"
    /\ Record("usage", "main", "", 0, 0)
    /\ UNCHANGED <<argc, width, height, heap, textures, input_buf, output_buf,
                   window, drawn>>

ArgsAccepted ==
    /\ pc = "main"
    /\ ~ArgcMismatch
    /\ pc' = "load"
    /\ UNCHANGED <<argc, width, height, heap, textures, input_buf, output_buf,
                   window, drawn, usage, exit_code, log>>

LoadImage ==
    /\ pc = "load"
    /\ \E w \in 1..MaxWidth, h \in 1..MaxHeight, p \in 1..Len(Palette) :
          /\ width' = w
          /\ height' = h
          /\ heap' = [heap EXCEPT ![image_data] =
                         [state |-> "live", bytes |-> LoadedPixels(w, h, p)]]
    /\ pc' = "setup"
    /\ Record("load", "main", "", image_data, 0)
    /\ UNCHANGED <<argc, textures, input_buf, output_buf, window, drawn, usage,
                   exit_code>>

SetupWindow ==
    /\ pc = "setup"
    /\ window' = "open"
    /\ pc' = "draw_input"
    /\ Record("setup", "main", "", 0, 0)
    /\ UNCHANGED <<argc, width, height, heap, textures, input_buf, output_buf,
                   drawn, usage, exit_code>>

(* Layout::draw_image(quadrant, data, ...) followed by the given position. *)
DrawImage(at, quadrant, addr, next) ==
    /\ pc = at
    /\ drawn' = [drawn EXCEPT ![quadrant] = HostBytes(addr)]
    /\ pc' = next
    /\ Record("draw_image", "main", quadrant, addr, 0)
    /\ UNCHANGED <<argc, width, height, heap, textures, input_buf, output_buf,
                   window, usage, exit_code>>

(* calloc(width * height * 4, sizeof(uint8_t)) *)
Calloc(at, addr, next) ==
    /\ pc = at
    /\ heap' = [heap EXCEPT ![addr] =
                   [state |-> "live", bytes |-> ZeroBytes(width * height * 4)]]
    /\ pc' = next
    /\ Record("calloc", "main", "", addr, 0)
    /\ UNCHANGED <<argc, width, height, textures, input_buf, output_buf, window,
                   drawn, usage, exit_code>>

(* free(addr) *)
Free(at, addr, next) ==
    /\ pc = at
    /\ heap' = [heap EXCEPT ![addr] = [state |-> "freed", bytes |-> <<>>]]
    /\ pc' = next
    /\ Record("free", "main", "", addr, 0)
    /\ UNCHANGED <<argc, width, height, textures, input_buf, output_buf, window,
                   drawn, usage, exit_code>>

DrawInput == DrawImage("draw_input", "UL", image_data, "cpu_calloc")

----------------------------------------------------------------------------
(* Steps shared by the three strategy functions. *)

(* auto input_buf = create_buffer(width, height); *)
BuildInput(fn, at, next) ==
    /\ pc = at
    /\ input_buf' = create_buffer(width, height)
    /\ pc' = next
    /\ Record("create_buffer", fn, "input_buf", 0, 0)
    /\ UNCHANGED <<argc, width, height, heap, textures, output_buf, window, drawn,
                   usage, exit_code>>

(* auto output_buf = create_buffer(width, height); *)
BuildOutput(fn, at, next) ==
    /\ pc = at
    /\ output_buf' = create_buffer(width, height)
    /\ pc' = next
    /\ Record("create_buffer", fn, "output_buf", 0, 0)
    /\ UNCHANGED <<argc, width, height, heap, textures, input_buf, window, drawn,
                   usage, exit_code>>

(* input_buf.host = image_data; *)
PointInput(fn, at, addr, next) ==
    /\ pc = at
    /\ input_buf' = [input_buf EXCEPT !.host = addr]
    /\ pc' = next
    /\ Record("set_host", fn, "input_buf", addr, 0)
    /\ UNCHANGED <<argc, width, height, heap, textures, output_buf, window, drawn,
                   usage, exit_code>>

(* output_buf.host = result_data; *)
PointOutput(fn, at, addr, next) ==
    /\ pc = at
    /\ output_buf' = [output_buf EXCEPT !.host = addr]
    /\ pc' = next
    /\ Record("set_host", fn, "output_buf", addr, 0)
    /\ UNCHANGED <<argc, width, height, heap, textures, input_buf, window, drawn,
                   usage, exit_code>>

(* return Timer::report(time); the locals go out of scope. *)
Return(fn, at, next) ==
    /\ pc = at
    /\ input_buf' = ZeroBuffer
    /\ output_buf' = ZeroBuffer
    /\ pc' = next
    /\ Record("return", fn, "", 0, 0)
    /\ UNCHANGED <<argc, width, height, heap, textures, window, drawn, usage,
                   exit_code>>

(* sample_filter_opengl(&input_buf, &output_buf); the status is dropped.   *)
InvokeOpenGL(fn, at, next) ==
    /\ pc = at
    /\ \E status \in Statuses :
          /\ Record("invoke_opengl", fn, "", 0, status)
          /\ IF status = 0
             THEN LET r == OpenGLFilterResult(input_buf, output_buf, textures, heap)
                  IN  /\ input_buf' = r.inb
                      /\ output_buf' = r.outb
                      /\ textures' = r.textures
             ELSE UNCHANGED <<input_buf, output_buf, textures>>
    /\ pc' = next
    /\ UNCHANGED <<argc, width, height, heap, window, drawn, usage, exit_code>>

----------------------------------------------------------------------------
(* Strategy 1: run_cpu_filter, and main around it. *)

CallocCpuResult == Calloc("cpu_calloc", cpu_result_data, "cpu_build_in")

CpuBuildInput == BuildInput("cpu", "cpu_build_in", "cpu_point_in")

CpuPointInput == PointInput("cpu", "cpu_point_in", image_data, "cpu_build_out")

CpuBuildOutput == BuildOutput("cpu", "cpu_build_out", "cpu_point_out")

CpuPointOutput == PointOutput("cpu", "cpu_point_out", cpu_result_data, "cpu_invoke")

(* sample_filter_cpu(&input_buf, &output_buf); the status is dropped.      *)
CpuInvoke ==
    /\ pc = "cpu_invoke"
    /\ \E status \in Statuses :
          /\ Record("invoke_cpu", "cpu", "", 0, status)
          /\ IF status = 0 /\ input_buf.host # NULL /\ output_buf.host # NULL
             THEN heap' = [heap EXCEPT ![output_buf.host].bytes =
                              CpuFilterResult(input_buf, output_buf,
                                              HostBytes(input_buf.host),
                                              HostBytes(output_buf.host))]
             ELSE UNCHANGED heap
    /\ pc' = "cpu_return"
    /\ UNCHANGED <<argc, width, height, textures, input_buf, output_buf, window,
                   drawn, usage, exit_code>>

CpuReturn == Return("cpu", "cpu_return", "cpu_draw")

DrawCpuResult == DrawImage("cpu_draw", "UR", cpu_result_data, "cpu_free")

FreeCpuResult == Free("cpu_free", cpu_result_data, "h2h_calloc")

----------------------------------------------------------------------------
(* Strategy 2: run_opengl_filter_from_host_to_host, and main around it. *)

CallocOpenGLResult == Calloc("h2h_calloc", opengl_result_data, "h2h_build_in")

H2HBuildInput == BuildInput("h2h", "h2h_build_in", "h2h_point_in")

H2HPointInput == PointInput("h2h", "h2h_point_in", image_data, "h2h_dirty")

(* input_buf.host_dirty = true; *)
H2HMarkDirty ==
    /\ pc = "h2h_dirty"
    /\ input_buf' = [input_buf EXCEPT !.host_dirty = TRUE]
    /\ pc' = "h2h_build_out"
    /\ Record("set_host_dirty", "h2h", "input_buf", 0, 0)
    /\ UNCHANGED <<argc, width, height, heap, textures, output_buf, window, drawn,
                   usage, exit_code>>

H2HBuildOutput == BuildOutput("h2h", "h2h_build_out", "h2h_point_out")

H2HPointOutput == PointOutput("h2h", "h2h_point_out", opengl_result_data, "h2h_invoke")

H2HInvoke == InvokeOpenGL("h2h", "h2h_invoke", "h2h_sync")

H2HCopyToHostSkipped ==
    /\ pc = "h2h_sync"
    /\ pc' = "h2h_return"
    /\ UNCHANGED <<argc, width, height, heap, textures, input_buf, output_buf,
                   window, drawn, usage, exit_code, log>>

(* halide_copy_to_host(nullptr, &output_buf); the status is dropped.       *)
H2HCopyToHost ==
    /\ pc = "h2h_sync"
    /\ \E status \in Statuses :
          /\ Record("copy_to_host", "h2h", "output_buf", output_buf.host, status)
          /\ IF status = 0 /\ output_buf.host # NULL
             THEN /\ heap' = [heap EXCEPT ![output_buf.host].bytes =
                                 CopyToHostResult(output_buf, textures, heap)]
                  /\ output_buf' = [output_buf EXCEPT !.dev_dirty = FALSE]
             ELSE UNCHANGED <<heap, output_buf>>
    /\ pc' = "h2h_return"
    /\ UNCHANGED <<argc, width, height, textures, input_buf, window, drawn, usage,
                   exit_code>>

H2HReturn == Return("h2h", "h2h_return", "h2h_draw")

DrawOpenGLResult == DrawImage("h2h_draw", "LL", opengl_result_data, "h2h_free")

FreeOpenGLResultPasted == Free("h2h_free", cpu_result_data, "tex_create_in")

FreeOpenGLResult == Free("h2h_free", opengl_result_data, "tex_create_in")

----------------------------------------------------------------------------
(* Strategy 3: run_opengl_filter_from_texture_to_texture, and main around. *)

(* OpenGLHelpers::create_texture(width, height, data) *)
CreateTexture(at, id, pixels, next) ==
    /\ pc = at
    /\ textures' = [textures EXCEPT ![id] = [state |-> "live", pixels |-> pixels]]
    /\ pc' = next
    /\ Record("create_texture", "main", "", id, 0)
    /\ UNCHANGED <<argc, width, height, heap, input_buf, output_buf, window, drawn,
                   usage, exit_code>>

(* OpenGLHelpers::delete_texture(id) *)
DeleteTexture(at, id, next) ==
    /\ pc = at
    /\ textures' = [textures EXCEPT ![id] = [state |-> "deleted", pixels |-> Undefined]]
    /\ pc' = next
    /\ Record("delete_texture", "main", "", id, 0)
    /\ UNCHANGED <<argc, width, height, heap, input_buf, output_buf, window, drawn,
                   usage, exit_code>>

CreateImageTexture ==
    CreateTexture("tex_create_in", image_texture_id, HostBytes(image_data),
                  "tex_create_out")

CreateResultTexture ==
    CreateTexture("tex_create_out", result_texture_id, Undefined, "t2t_build_in")

T2TBuildInput == BuildInput("t2t", "t2t_build_in", "t2t_wrap_in")

(* halide_opengl_wrap_texture(nullptr, &input_buf, input_texture_id);      *)
T2TWrapInput ==
    /\ pc = "t2t_wrap_in"
    /\ \E status \in Statuses :
          /\ Record("wrap", "t2t", "input_buf", image_texture_id, status)
          /\ input_buf' = WrapResult(input_buf, image_texture_id, status)
    /\ pc' = "t2t_build_out"
    /\ UNCHANGED <<argc, width, height, heap, textures, output_buf, window, drawn,
                   usage, exit_code>>

T2TBuildOutput == BuildOutput("t2t", "t2t_build_out", "t2t_wrap_out")

(* halide_opengl_wrap_texture(nullptr, &output_buf, output_texture_id);    *)
T2TWrapOutput ==
    /\ pc = "t2t_wrap_out"
    /\ \E status \in Statuses :
          /\ Record("wrap", "t2t", "output_buf", result_texture_id, status)
          /\ output_buf' = WrapResult(output_buf, result_texture_id, status)
    /\ pc' = "t2t_invoke"
    /\ UNCHANGED <<argc, width, height, heap, textures, input_buf, window, drawn,
                   usage, exit_code>>

T2TInvoke == InvokeOpenGL("t2t", "t2t_invoke", "t2t_detach_out")

(* halide_opengl_detach_texture(nullptr, &output_buf); *)
T2TDetachOutput ==
    /\ pc = "t2t_detach_out"
    /\ \E status \in Statuses :
          /\ Record("detach", "t2t", "output_buf", output_buf.dev, status)
          /\ output_buf' = DetachResult(output_buf, status)
    /\ pc' = "t2t_detach_in"
    /\ UNCHANGED <<argc, width, height, heap, textures, input_buf, window, drawn,
                   usage, exit_code>>

(* halide_opengl_detach_texture(nullptr, &input_buf); *)
T2TDetachInput ==
    /\ pc = "t2t_detach_in"
    /\ \E status \in Statuses :
          /\ Record("detach", "t2t", "input_buf", input_buf.dev, status)
          /\ input_buf' = DetachResult(input_buf, status)
    /\ pc' = "t2t_return"
    /\ UNCHANGED <<argc, width, height, heap, textures, output_buf, window, drawn,
                   usage, exit_code>>

T2TReturn == Return("t2t", "t2t_return", "t2t_draw")

(* Layout::draw_texture(Layout::LR, result_texture_id, ...) *)
DrawTextureResult ==
    /\ pc = "t2t_draw"
    /\ drawn' = [drawn EXCEPT !["LR"] = TextureBytes(result_texture_id)]
    /\ pc' = "tex_delete_in"
    /\ Record("draw_texture", "main", "LR", result_texture_id, 0)
    /\ UNCHANGED <<argc, width, height, heap, textures, input_buf, output_buf,
                   window, usage, exit_code>>

DeleteImageTexture == DeleteTexture("tex_delete_in", image_texture_id, "tex_delete_out")

DeleteResultTexture == DeleteTexture("tex_delete_out", result_texture_id, "context_lost")

----------------------------------------------------------------------------
(* Shutdown. *)

ContextLostSkipped ==
    /\ pc = "context_lost"
    /\ pc' = "terminate"
    /\ UNCHANGED <<argc, width, height, heap, textures, input_buf, output_buf,
                   window, drawn, usage, exit_code, log>>

(* halide_opengl_context_lost(nullptr); *)
ContextLost ==
    /\ pc = "context_lost"
    /\ textures' = ContextLostResult(textures)
    /\ pc' = "terminate"
    /\ Record("context_lost", "main", "", 0, 0)
    /\ UNCHANGED <<argc, width, height, heap, input_buf, output_buf, window, drawn,
                   usage, exit_code>>

(* GlfwHelpers::terminate(); *)
Terminate ==
    /\ pc = "terminate"
    /\ window' = "terminated"
    /\ pc' = "free_image"
    /\ Record("terminate", "main", "", 0, 0)
    /\ UNCHANGED <<argc, width, height, heap, textures, input_buf, output_buf,
                   drawn, usage, exit_code>>

FreeImage == Free("free_image", image_data, "main_return")

(* return 0; *)
MainReturn ==
    /\ pc = "main_return"
    /\ exit_code' = 0
    /\ pc' = "exited"
    /\ Record("exit", "main", "", 0, 0)
    /\ UNCHANGED <<argc, width, height, heap, textures, input_buf, output_buf,
                   window, drawn, usage>>

----------------------------------------------------------------------------

Next ==
    \/ UsageExit
    \/ ArgsAccepted
    \/ LoadImage
    \/ SetupWindow
    \/ DrawInput
    \/ CallocCpuResult
    \/ CpuBuildInput
    \/ CpuPointInput
    \/ CpuBuildOutput
    \/ CpuPointOutput
    \/ CpuInvoke
    \/ CpuReturn
    \/ DrawCpuResult
    \/ FreeCpuResult
    \/ CallocOpenGLResult
    \/ H2HBuildInput
    \/ H2HPointInput
    \/ H2HMarkDirty
    \/ H2HBuildOutput
    \/ H2HPointOutput
    \/ H2HInvoke
    \/ H2HCopyToHost
    \/ H2HReturn
    \/ DrawOpenGLResult
    \/ FreeOpenGLResult
    \/ CreateImageTexture
    \/ CreateResultTexture
    \/ T2TBuildInput
    \/ T2TWrapInput
    \/ T2TBuildOutput
    \/ T2TWrapOutput
    \/ T2TInvoke
    \/ T2TDetachOutput
    \/ T2TDetachInput
    \/ T2TReturn
    \/ DrawTextureResult
    \/ DeleteImageTexture
    \/ DeleteResultTexture
    \/ ContextLost
    \/ Terminate
    \/ FreeImage
    \/ MainReturn

Spec == Init /\ [][Next]_vars

----------------------------------------------------------------------------
(* Reading the history. *)

Idx == 1..Len(log)

At(op, fn) == {i \in Idx : log[i].op = op /\ log[i].fn = fn}

AtArg(op, fn, arg) == {i \in At(op, fn) : log[i].arg = arg}

AtRes(op, res) == {i \in Idx : log[i].op = op /\ log[i].res = res}

(* The descriptor a wrap, detach or copy_to_host event was called on.      *)
Target(e) == IF e.arg = "input_buf" THEN e.inb ELSE e.outb

Invocations == {i \in Idx : log[i].op \in {"invoke_cpu", "invoke_opengl"}}

Failures == {i \in Idx : log[i].status # 0}

(* Event i reads or writes the host allocation addr.                       *)
UsesAddress(i, addr) ==
    \/ log[i].op = "draw_image" /\ log[i].res = addr
    \/ log[i].op = "copy_to_host" /\ log[i].res = addr
    \/ log[i].op \in {"invoke_cpu", "invoke_opengl"}
         /\ (log[i].inb.host = addr \/ log[i].outb.host = addr)
    \/ log[i].op = "create_texture" /\ log[i].res = image_texture_id
         /\ addr = image_data

(* Event i uses the device texture id.                                     *)
UsesTexture(i, id) ==
    \/ log[i].op \in {"wrap", "draw_texture"} /\ log[i].res = id
    \/ log[i].op \in {"invoke_opengl", "detach"}
         /\ (log[i].inb.dev = id \/ log[i].outb.dev = id)

----------------------------------------------------------------------------
(* C1: for every width > 0 and height > 0, the descriptor create_buffer    *)
(* returns has stride = [4, 4*width, 1], extent = [width, height, 4],      *)
(* elem_size = 1, a null host pointer, no device handle, host_dirty =      *)
(* false, and every other field zero.  Checked on each of the six          *)
(* descriptors the strategies build, right after the builder returned.     *)
C1_BuiltDescriptor(w, h) ==
    [dev |-> 0, host |-> NULL,
     extent |-> <<w, h, 4, 0>>, stride |-> <<4, 4 * w, 1, 0>>,
     min |-> <<0, 0, 0, 0>>, elem_size |-> 1,
     host_dirty |-> FALSE, dev_dirty |-> FALSE]

C1_CreateBufferContract ==
    /\ pc \in {"cpu_point_in", "h2h_point_in", "t2t_wrap_in"}
         => width > 0 /\ height > 0 /\ input_buf = C1_BuiltDescriptor(width, height)
    /\ pc \in {"cpu_point_out", "h2h_point_out", "t2t_wrap_out"}
         => width > 0 /\ height > 0 /\ output_buf = C1_BuiltDescriptor(width, height)

C1_Witness ==
    /\ pc = "t2t_wrap_out"
    /\ width = 2
    /\ height = 1
    /\ output_buf.stride = <<4, 8, 1, 0>>

(* C2: in run_opengl_filter_from_host_to_host the steps are in strict      *)
(* order: both descriptors are built and the input's host_dirty is set     *)
(* before the filter is invoked (the output's stays false), the filter is  *)
(* invoked once, halide_copy_to_host on the output follows it, and between *)
(* that synchronization and the caller's read of the output host buffer    *)
(* nothing touches the output; the caller reads only after it.             *)
C2_TouchesOutput(i) ==
    \/ log[i].op \in {"invoke_opengl", "invoke_cpu", "copy_to_host"}
         /\ log[i].outb.host = opengl_result_data
    \/ log[i].op \in {"free", "calloc"} /\ log[i].res = opengl_result_data
    \/ log[i].op \in {"set_host", "set_host_dirty", "create_buffer"}
         /\ log[i].fn = "h2h" /\ log[i].arg = "output_buf"

C2_StagedOrder ==
    /\ Cardinality(At("invoke_opengl", "h2h")) <= 1
    /\ Cardinality(At("copy_to_host", "h2h")) <= 1
    /\ \A i \in At("invoke_opengl", "h2h") :
          /\ \E a \in AtArg("create_buffer", "h2h", "input_buf"),
                d \in AtArg("set_host_dirty", "h2h", "input_buf"),
                b \in AtArg("create_buffer", "h2h", "output_buf") :
                a < d /\ d < b /\ b < i
          /\ log[i].inb.host_dirty = TRUE
          /\ log[i].inb.host = image_data
          /\ log[i].outb.host_dirty = FALSE
          /\ log[i].outb.host = opengl_result_data
    /\ \A d \in At("set_host_dirty", "h2h") :
          \A i \in At("invoke_opengl", "h2h") : d < i
    /\ \A j \in Idx : log[j].fn = "h2h" => log[j].outb.host_dirty = FALSE
    /\ pc \in {"h2h_sync", "h2h_return"} => output_buf.host_dirty = FALSE
    /\ \A s \in At("copy_to_host", "h2h") :
          /\ log[s].arg = "output_buf"
          /\ log[s].outb.host = opengl_result_data
          /\ \E i \in At("invoke_opengl", "h2h") : i < s
    /\ \A r \in Idx :
          UsesAddress(r, opengl_result_data) /\ log[r].op = "draw_image"
             => \E s \in At("copy_to_host", "h2h") :
                   /\ s < r
                   /\ \A j \in (s + 1)..(r - 1) : ~C2_TouchesOutput(j)

C2_Witness ==
    /\ pc = "h2h_free"
    /\ drawn["LL"] # Nothing
    /\ At("copy_to_host", "h2h") # {}

(* C3: for the same input image, the output host bytes the caller reads    *)
(* after the host-to-device-staged strategy equal those of the             *)
(* host-resident strategy, and are never the stale zero-initialized        *)
(* buffer when the filter result is non-zero.                              *)
C3_FilterOfInput == DeviceFilterResult(drawn["UL"])

C3_StagedEqualsHostResident ==
    drawn["LL"] # Nothing
       => /\ drawn["LL"] = drawn["UR"]
          /\ C3_FilterOfInput # ZeroBytes(Len(drawn["UL"]))
                => drawn["LL"] # ZeroBytes(Len(drawn["UL"]))

(* C4: in run_opengl_filter_from_texture_to_texture both descriptors are   *)
(* wrapped onto their textures before the filter is invoked, the filter    *)
(* runs while both are wrapped, both are detached only after it returned,  *)
(* the output before the input; neither descriptor ever carries a host     *)
(* pointer and no mark-dirty or copy-to-host step is performed.            *)
C4_DeviceToDeviceOrder ==
    /\ \A i \in At("invoke_opengl", "t2t") :
          /\ \E a \in AtArg("wrap", "t2t", "input_buf"),
                b \in AtArg("wrap", "t2t", "output_buf") : a < i /\ b < i
          /\ log[i].inb.dev = image_texture_id
          /\ log[i].outb.dev = result_texture_id
    /\ \A d \in At("detach", "t2t") : \E i \in At("invoke_opengl", "t2t") : i < d
    /\ \A d \in AtArg("detach", "t2t", "input_buf") :
          \E o \in AtArg("detach", "t2t", "output_buf") : o < d
    /\ \A i \in Idx :
          log[i].fn = "t2t"
             => /\ log[i].inb.host = NULL
                /\ log[i].outb.host = NULL
                /\ log[i].op \notin {"set_host", "set_host_dirty", "copy_to_host"}

(* C5: at every call of sample_filter_cpu or sample_filter_opengl each of  *)
(* the two descriptors passed has exactly one data source, a non-null      *)
(* host pointer or an attached device handle, and its strides still equal  *)
(* [4, 4*width, 1].                                                        *)
C5_OneSource(buf) ==
    /\ (buf.host # NULL) # (buf.dev # 0)
    /\ buf.stride = <<4, 4 * width, 1, 0>>

C5_ValidDescriptorsAtInvoke ==
    \A i \in Invocations : C5_OneSource(log[i].inb) /\ C5_OneSource(log[i].outb)

(* C6: on every run past argument checking halide_opengl_context_lost is   *)
(* called exactly once, after all three strategies (their invokes, syncs,  *)
(* detaches and texture deletions) and before GlfwHelpers::terminate, and  *)
(* after it no wrap, detach, copy-to-host or filter invocation happens.    *)
C6_DeviceWork ==
    {"wrap", "detach", "copy_to_host", "invoke_cpu", "invoke_opengl",
     "create_texture", "delete_texture", "draw_texture", "create_buffer"}

C6_ReleaseOnceAtShutdown ==
    /\ Cardinality(At("context_lost", "main")) <= 1
    /\ exit_code = 0 => Cardinality(At("context_lost", "main")) = 1
    /\ \A k \in At("context_lost", "main") :
          /\ \E c \in At("return", "cpu"), h \in At("return", "h2h"),
                t \in At("return", "t2t"),
                x \in AtRes("delete_texture", image_texture_id),
                y \in AtRes("delete_texture", result_texture_id) :
                c < k /\ h < k /\ t < k /\ x < k /\ y < k
          /\ \A j \in Idx : log[j].op \in C6_DeviceWork => j < k
          /\ \A t \in At("terminate", "main") : k < t
    /\ \A t \in At("terminate", "main") : At("context_lost", "main") # {}
    /\ pc = "terminate" => window = "open"

C6_Witness ==
    /\ exit_code = 0
    /\ window = "terminated"
    /\ Cardinality(At("context_lost", "main")) = 1

(* C7: if a filter entry point returns a nonzero status, or a wrap, detach *)
(* or copy-to-host call reports failure, the run is aborted at once: no    *)
(* later strategy step is executed, nothing is drawn afterwards, and the   *)
(* process does not finish with exit code 0.                               *)
C7_StrategyWork ==
    {"wrap", "detach", "copy_to_host", "invoke_cpu", "invoke_opengl",
     "create_buffer", "draw_image", "draw_texture"}

C7_FailureAborts ==
    \A i \in Failures :
       /\ \A j \in Idx : j > i => log[j].op \notin C7_StrategyWork
       /\ exit_code # 0

(* C8: a descriptor bound to a device resource moves only along            *)
(* Unbound -> Wrapped -> Detached: wrap is called only on an Unbound       *)
(* descriptor and never twice, detach only on a Wrapped one, a wrapped     *)
(* descriptor is detached before it is discarded, and a texture is         *)
(* deleted once, after its creation and after every descriptor wrapped on  *)
(* it has been detached.                                                   *)
C8_WrappedOn(id, k) ==
    {i \in AtRes("wrap", id) :
        /\ i < k
        /\ log[i].status = 0
        /\ ~\E d \in AtArg("detach", log[i].fn, log[i].arg) :
               i < d /\ d < k /\ log[d].status = 0}

C8_BindingLifecycle ==
    /\ \A i \in Idx :
          log[i].op = "wrap"
             => /\ Target(log[i]).dev = 0
                /\ ~\E j \in AtArg("wrap", log[i].fn, log[i].arg) : j < i
    /\ \A i \in Idx : log[i].op = "detach" => Target(log[i]).dev # 0
    /\ \A i \in At("return", "t2t") : log[i].inb.dev = 0 /\ log[i].outb.dev = 0
    /\ \A id \in {image_texture_id, result_texture_id} :
          /\ Cardinality(AtRes("delete_texture", id)) <= 1
          /\ \A k \in AtRes("delete_texture", id) :
                /\ \E c \in AtRes("create_texture", id) : c < k
                /\ C8_WrappedOn(id, k) = {}

(* C9: with argc # 2 the program writes the usage message and exits with   *)
(* code 1 without loading the image, opening a window or invoking a        *)
(* filter; with argc = 2 and no failure it runs all three strategies and   *)
(* exits with code 0.                                                      *)
C9_ArgumentCheck ==
    /\ argc # 2 /\ pc # "main"
         => /\ pc = "exited"
            /\ usage
            /\ exit_code = 1
            /\ heap[image_data].state = "unallocated"
            /\ width = 0
            /\ window = "none"
            /\ Invocations = {}
            /\ \A i \in Idx : log[i].op = "usage"
    /\ argc = 2 /\ pc # "exited" => ENABLED Next
    /\ argc = 2 /\ pc = "exited" /\ Failures = {}
         => /\ exit_code = 0
            /\ ~usage
            /\ At("invoke_cpu", "cpu") # {}
            /\ At("invoke_opengl", "h2h") # {}
            /\ At("invoke_opengl", "t2t") # {}
            /\ \A q \in Quadrants : drawn[q] # Nothing

C9_Witness ==
    /\ argc = 3
    /\ pc = "exited"
    /\ usage
    /\ exit_code = 1

(* C10: every resource main acquires (the two zeroed result buffers, the   *)
(* two textures, the image pixels) is released exactly once and never      *)
(* used after its release: a result buffer is freed only after its         *)
(* strategy returned and its result was drawn, a texture is deleted only   *)
(* after the device-to-device result was drawn, and the image pixels are   *)
(* freed only after all three strategies and the input texture's creation. *)
C10_ReleaseDiscipline ==
    /\ \A a \in Addresses :
          /\ Cardinality(AtRes("free", a)) <= 1
          /\ exit_code = 0
                => Cardinality(AtRes("free", a)) = 1 /\ heap[a].state = "freed"
          /\ \A f \in AtRes("free", a) :
                /\ \A j \in Idx : UsesAddress(j, a) => j < f
                /\ \E c \in AtRes("calloc", a) \cup AtRes("load", a) : c < f
    /\ \A id \in {image_texture_id, result_texture_id} :
          /\ Cardinality(AtRes("delete_texture", id)) <= 1
          /\ exit_code = 0
                => /\ Cardinality(AtRes("delete_texture", id)) = 1
                   /\ textures[id].state = "deleted"
          /\ \A k \in AtRes("delete_texture", id) :
                /\ \A j \in Idx : UsesTexture(j, id) => j < k
                /\ \E d \in At("draw_texture", "main") : d < k
    /\ \A f \in AtRes("free", cpu_result_data) :
          \E r \in At("return", "cpu"), d \in AtRes("draw_image", cpu_result_data) :
             r < d /\ d < f
    /\ \A f \in AtRes("free", opengl_result_data) :
          \E r \in At("return", "h2h"), d \in AtRes("draw_image", opengl_result_data) :
             r < d /\ d < f
    /\ \A f \in AtRes("free", image_data) :
          \E c \in At("return", "cpu"), h \in At("return", "h2h"),
             t \in At("return", "t2t"),
             x \in AtRes("create_texture", image_texture_id) :
             c < f /\ h < f /\ t < f /\ x < f

C10_Witness ==
    /\ exit_code = 0
    /\ \A a \in Addresses : heap[a].state = "freed"
    /\ textures[image_texture_id].state = "deleted"
    /\ textures[result_texture_id].state = "deleted"

====
